---- MODULE Spec2Model ----
(***************************************************************************)
(* getEntry (src/scripts/get-entry.js): the cache-and-prefetch layer of    *)
(* the Tieba widget.  One source name is tracked; getEntry is invoked by a *)
(* single consumer, one invocation at a time.  An image pass that lost the *)
(* race against its deadline is not cancelled: it keeps running on its own *)
(* items and keeps writing files.                                          *)
(*                                                                         *)
(* Every await of the source is a suspension point and every action below  *)
(* is one run of the code between two suspension points.                   *)
(***************************************************************************)
EXTENDS Integers, Sequences, FiniteSets, TLC

\* ------------------------------------------------------------------ bounds
MaxTicks == 1          \* the clock stops after MaxTicks ticks
TickMs == 60000        \* one tick of the clock, in milliseconds

\* ----------------------------------------- constants of ./constant (scaled)
DEFAULT_REFRESH_CIRCLE == 1                  \* minutes
IMAGE_CLEAR_INTERVAL == 30000                \* milliseconds
MAX_IMAGE_SIZE == 1                          \* bytes
MAX_ABSTRACT_LEN_ALLOWING_TWO_IMAGES == 2    \* characters
IMAGE_DOWNLOAD_DIR == <<"image">>            \* a path is a sequence of segments

\* -------------------------------------------------------- optional values
\* null / undefined is the empty sequence, a present value v is <<v>>
Null == <<>>
Some(v) == <<v>>
IsNull(o) == o = <<>>
Val(o) == o[1]

\* an optional property of an object is a field that may be missing
Has(r, f) == f \in DOMAIN r
SetField(r, f, v) == [g \in (DOMAIN r) \cup {f} |-> IF g = f THEN v ELSE r[g]]

InSeq(x, s) == \E n \in 1..Len(s) : s[n] = x

\* ------------------------------------------------------------ input sets
\* a locator is the sequence of the segments between its slashes
U1 == <<"h", "a">>
U2 == <<"h", "b">>
U3 == <<"h", "c">>
U4 == <<"g", "a">>
U5 == <<"h", "d">>
U6 == <<"h", "e">>

tiebaNames == {"", "t"}

\* items as the remote source client returns them
ItemNoImg == [imgUrls |-> <<>>]
ItemLong == [abstract |-> <<"x", "x">>, imgUrls |-> <<U2>>]
ItemLongA == [abstract |-> <<"x", "x">>, imgUrls |-> <<U1>>]
ItemShort == [abstract |-> <<"x">>, imgUrls |-> <<U1, U2, U3>>]
ItemNoAbs == [imgUrls |-> <<U1, U4>>]
ItemFive == [imgUrls |-> <<U1, U2, U3, U5, U6>>]
ItemEmptyAbs == [abstract |-> <<>>, imgUrls |-> <<U1, U2, U3>>]
ItemLongTwo == [abstract |-> <<"x", "x">>, imgUrls |-> <<U1, U2>>]

\* the lists the remote source client can answer with
FetchResults == {<<>>, <<ItemNoImg, ItemLong>>}
MoreFetchResults == {<<>>, <<ItemNoImg, ItemLong, ItemLongA>>, <<ItemShort>>, <<ItemNoAbs>>}
SelectFetchResults == {<<ItemFive>>, <<ItemEmptyAbs>>, <<ItemShort>>, <<ItemLongTwo>>}

\* the response of a HEAD request and of a GET request
\* the probe failed, reported no length, a length within the budget, one above it
HeadResponses == {[error |-> TRUE, len |-> 0]} \cup {[error |-> FALSE, len |-> l] : l \in 0..2}
\* the download failed, was refused, was served
GetResponses == {[error |-> TRUE, statusCode |-> 0]} \cup
                {[error |-> FALSE, statusCode |-> c] : c \in {200, 404}}

\* values of the preference 'refresh-circle'
PrefValues == {Null, Some(2)}

\* ------------------------------------------------------------- file system
\* root: IMAGE_DOWNLOAD_DIR exists; dir: the per-source directory exists;
\* mtime: its modification time; files: the paths of the files in it
fileExists(f, dst, path) ==
    IF path = IMAGE_DOWNLOAD_DIR THEN f.root
    ELSE IF path = dst THEN f.dir
    ELSE path \in f.files

\* $file.write of a file in dst at time t; creating a file touches the directory
fileWrite(f, path, t) ==
    [f EXCEPT !.files = @ \cup {path},
              !.mtime = IF path \in f.files THEN @ ELSE Some(t)]

\* what $file.write can return for the data of a response: it is called only
\* for a served download, and cannot succeed without the directory
writeResult(f, resp, written) ==
    IF ~resp.error /\ resp.statusCode = 200 THEN written => f.dir ELSE ~written

getFileMTime(f) == IF f.dir THEN f.mtime ELSE Null

VARIABLES
    remote,      \* the lists getTiebaPost can answer with
    cache,       \* $cache: source name -> record, a name without record is not in the domain
    prefs,       \* $prefs 'refresh-circle', optional
    fs,          \* the file system below IMAGE_DOWNLOAD_DIR
    now,         \* Date.now()
    pc,          \* where the invocation of getEntry is: "idle", "fetch", "images"
    forceLoad,   \* argument of the invocation
    cached,      \* what $cache.getAsync returned, optional
    items,       \* the working copy of the items
    date,        \* the date of the working copy
    tasks,       \* one downloadImage call per item of the running pass
    abandoned,   \* the pass that timed out and still runs, optional
    ret,         \* what the last invocation returned
    inv,         \* history of the current invocation (what it did)
    hist         \* history of the record in the cache (how it was written)

vars == <<remote, cache, prefs, fs, now, pc, forceLoad, cached, items, date, tasks,
          abandoned, ret, inv, hist>>

dstOf(name) == IMAGE_DOWNLOAD_DIR \o <<name>>

\* --------------------------------------------------------- downloadImage
\* url.split('/').slice(-1)[0]
nameOf(url) == url[Len(url)]
\* `${dst}/${name}`
pathOf(dst, url) == dst \o <<nameOf(url)>>

imgDownloadedOf(item) == Has(item, "imgDownloaded") /\ item.imgDownloaded

\* the count of the comment of line 33: one image for an item with abstract
maxNumImgOne(item) ==
    IF ~Has(item, "abstract") \/ Len(item.abstract) = 0 THEN 3 ELSE 1

maxNumImg(item) ==
    IF ~Has(item, "abstract") \/ Len(item.abstract) = 0 THEN 3
    ELSE IF Len(item.abstract) < MAX_ABSTRACT_LEN_ALLOWING_TWO_IMAGES THEN 2
    ELSE 1

\* a downloadImage call: pc "head" (a probe is in flight for imgUrls[i]),
\* "get" (the downloads of shown[j], j in pending, are in flight), "done"
\* heads counts the probes the call has issued
doneTask(task, r) ==
    [task EXCEPT !.pc = "done", !.i = 0, !.pending = {}, !.ret = r]

newTask ==
    [pc |-> "head", i |-> 1, heads |-> 1, selected |-> <<>>, shown |-> <<>>,
     pending |-> {}, failed |-> {}, ret |-> FALSE]

\* the filter without the test of $file.exists
RECURSIVE filterShownRecorded(_, _, _, _)
filterShownRecorded(dst, urls, paths, f) ==
    IF urls = <<>> THEN [keep |-> <<>>, paths |-> paths]
    ELSE LET path == pathOf(dst, Head(urls)) IN
         IF InSeq(path, paths) THEN filterShownRecorded(dst, Tail(urls), paths, f)
         ELSE LET r == filterShownRecorded(dst, Tail(urls), paths, f)
              IN [keep |-> <<Head(urls)>> \o r.keep, paths |-> r.paths]

\* the filter of lines 66-79: keep the locators to download, record the
\* files that exist and are not in imgPaths
RECURSIVE filterShown(_, _, _, _)
filterShown(dst, urls, paths, f) ==
    IF urls = <<>> THEN [keep |-> <<>>, paths |-> paths]
    ELSE LET path == pathOf(dst, Head(urls)) IN
         IF InSeq(path, paths) THEN filterShown(dst, Tail(urls), paths, f)
         ELSE IF fileExists(f, dst, path)
              THEN filterShown(dst, Tail(urls), Append(paths, path), f)
              ELSE LET r == filterShown(dst, Tail(urls), paths, f)
                   IN [keep |-> <<Head(urls)>> \o r.keep, paths |-> r.paths]

\* a probe that accepts a response without length
acceptBySizeNoLength(resp, maxSize) == ~resp.error /\ resp.len <= maxSize

\* the probe accepts the locator (line 26)
acceptBySize(resp, maxSize) == ~resp.error /\ resp.len # 0 /\ resp.len <= maxSize

\* downloadImage without the test of imgDownloaded
downloadImageStartAgain(item) ==
    IF Len(item.imgUrls) = 0
    THEN doneTask([newTask EXCEPT !.heads = 0], TRUE)
    ELSE newTask

\* downloadImage up to its first await (lines 39-54)
downloadImageStart(item) ==
    IF imgDownloadedOf(item) \/ Len(item.imgUrls) = 0
    THEN doneTask([newTask EXCEPT !.heads = 0], TRUE)
    ELSE newTask

\* an empty selection that leaves the item to a later call
downloadImageSelectedRetry(dst, item, task, f) ==
    IF Len(task.selected) = 0
    THEN [item |-> item, task |-> doneTask(task, FALSE)]
    ELSE LET it1 == IF ~Has(item, "imgPaths")
                    THEN SetField(SetField(item, "imgDownloaded", FALSE), "imgPaths", <<>>)
                    ELSE item
             flt == filterShown(dst, task.selected, it1.imgPaths, f)
             it2 == SetField(it1, "imgPaths", flt.paths)
         IN IF Len(flt.keep) = 0
            THEN [item |-> SetField(it2, "imgDownloaded", TRUE), task |-> doneTask(task, TRUE)]
            ELSE [item |-> it2,
                  task |-> [task EXCEPT !.pc = "get", !.i = 0, !.shown = flt.keep,
                                        !.pending = 1..Len(flt.keep)]]

\* downloadImage after selectImageBySize returned (lines 55-86)
downloadImageSelected(dst, item, task, f) ==
    IF Len(task.selected) = 0
    THEN [item |-> SetField(item, "imgDownloaded", TRUE), task |-> doneTask(task, TRUE)]
    ELSE LET it1 == IF ~Has(item, "imgPaths")
                    THEN SetField(SetField(item, "imgDownloaded", FALSE), "imgPaths", <<>>)
                    ELSE item
             flt == filterShown(dst, task.selected, it1.imgPaths, f)
             it2 == SetField(it1, "imgPaths", flt.paths)
         IN IF Len(flt.keep) = 0
            THEN [item |-> SetField(it2, "imgDownloaded", TRUE), task |-> doneTask(task, TRUE)]
            ELSE [item |-> it2,
                  task |-> [task EXCEPT !.pc = "get", !.i = 0, !.shown = flt.keep,
                                        !.pending = 1..Len(flt.keep)]]

\* the response of the probe of imgUrls[task.i] arrives (lines 20-30, then 55-86)
selectImageBySize(dst, item, task, resp, f) ==
    LET url == item.imgUrls[task.i]
        sel == IF acceptBySize(resp, MAX_IMAGE_SIZE)
               THEN Append(task.selected, url) ELSE task.selected
        t1 == [task EXCEPT !.selected = sel, !.i = @ + 1]
    IN IF t1.i <= Len(item.imgUrls) /\ Len(sel) < maxNumImg(item)
       THEN [item |-> item, task |-> [t1 EXCEPT !.heads = @ + 1]]
       ELSE downloadImageSelected(dst, item, t1, f)

\* the download of shown[j] succeeded (lines 87-99): no error, status 200, written
downloadSucceeded(resp, written) == ~resp.error /\ resp.statusCode = 200 /\ written

\* the response of the GET of shown[j] arrives (lines 86-116)
downloadImageGot(dst, item, task, j, resp, written, f, t) ==
    LET path == pathOf(dst, task.shown[j])
        ok == downloadSucceeded(resp, written)
        it1 == IF ok THEN SetField(item, "imgPaths", Append(item.imgPaths, path)) ELSE item
        t1 == [task EXCEPT !.pending = @ \ {j},
                           !.failed = IF ok THEN @ ELSE @ \cup {j}]
        f1 == IF ok THEN fileWrite(f, path, t) ELSE f
    IN IF t1.pending # {} THEN [item |-> it1, task |-> t1, fs |-> f1]
       ELSE IF t1.failed = {}
            THEN [item |-> SetField(it1, "imgDownloaded", TRUE),
                  task |-> doneTask(t1, TRUE), fs |-> f1]
            ELSE [item |-> it1, task |-> doneTask(t1, FALSE), fs |-> f1]

\* ----------------------------------------------- prepareForImageDownload
\* what $file.delete(dst) can do: delete, leave the directory, throw
DeleteResults == {"deleted", "failed", "thrown"}

\* mkRoot, mkDst: whether $file.mkdir(IMAGE_DOWNLOAD_DIR) and $file.mkdir(dst)
\* succeed when they are called (a mkdir that throws ends in the catch of line
\* 165 as one that returns false does); del: what $file.delete(dst) does
prepareForImageDownload(f, t, mkRoot, del, mkDst) ==
    IF ~f.root /\ ~mkRoot THEN [ok |-> FALSE, fs |-> f]
    ELSE LET f1 == [f EXCEPT !.root = TRUE]
             lastClearDate == getFileMTime(f1)
             old == ~IsNull(lastClearDate) /\ t - Val(lastClearDate) > IMAGE_CLEAR_INTERVAL
             f2 == IF old /\ del = "deleted"
                   THEN [f1 EXCEPT !.dir = FALSE, !.files = {}, !.mtime = Null]
                   ELSE f1
         IN IF old /\ del = "thrown" THEN [ok |-> FALSE, fs |-> f1]
            ELSE IF ~f2.dir /\ ~mkDst THEN [ok |-> FALSE, fs |-> f2]
            ELSE [ok |-> TRUE,
                  fs |-> IF f2.dir THEN f2 ELSE [f2 EXCEPT !.dir = TRUE, !.mtime = Some(t)]]

\* isCacheValid with <= for <
isCacheValidInclusive(c, nowDate) ==
    /\ ~IsNull(c)
    /\ Has(Val(c), "items")
    /\ Has(Val(c), "date")
    /\ nowDate - Val(c).date
         <= (IF IsNull(prefs) THEN DEFAULT_REFRESH_CIRCLE ELSE Val(prefs)) * 60000

\* isCacheValid with a test of items.length
isCacheValidNonEmpty(c, nowDate) ==
    /\ ~IsNull(c)
    /\ Has(Val(c), "items") /\ Len(Val(c).items) > 0
    /\ Has(Val(c), "date")
    /\ nowDate - Val(c).date
         < (IF IsNull(prefs) THEN DEFAULT_REFRESH_CIRCLE ELSE Val(prefs)) * 60000

\* ------------------------------------------------------------ isCacheValid
isCacheValid(c, nowDate) ==
    /\ ~IsNull(c)
    /\ Has(Val(c), "items")
    /\ Has(Val(c), "date")
    /\ nowDate - Val(c).date
         < (IF IsNull(prefs) THEN DEFAULT_REFRESH_CIRCLE ELSE Val(prefs)) * 60000

\* ------------------------------------------------------------ the passes
\* items.map(downloadImage.bind(null, dst)): every call runs to its first await
startTasks(its) == [k \in 1..Len(its) |-> downloadImageStart(its[k])]

allSettled(ts) == \A k \in 1..Len(ts) : ts[k].pc = "done"

\* a pass counted as complete as soon as one call returned true
everyTrueSome(ts) == \E k \in 1..Len(ts) : ts[k].ret

\* downloadResults.every(v => v.status === 'fulfilled' && v.value === true)
everyTrue(ts) == \A k \in 1..Len(ts) : ts[k].ret

\* a probe response for call k of a pass p = [items, tasks]
passHead(p, k, resp, f) ==
    LET r == selectImageBySize(dstOf("t"), p.items[k], p.tasks[k], resp, f)
    IN [items |-> [p.items EXCEPT ![k] = r.item],
        tasks |-> [p.tasks EXCEPT ![k] = r.task]]

\* a download response for locator j of call k of a pass p
passGot(p, k, j, resp, written, f, t) ==
    LET r == downloadImageGot(dstOf("t"), p.items[k], p.tasks[k], j, resp, written, f, t)
    IN [items |-> [p.items EXCEPT ![k] = r.item],
        tasks |-> [p.tasks EXCEPT ![k] = r.task],
        fs |-> r.fs]

\* doWithTimeout: the deadline can pass first only while the operation has not
\* settled; then the operation is left running and its result is dropped
timedOut(settled) == ~settled

\* --------------------------------------------------------------- getEntry
\* probes: the probes that were answered, where they are recorded
noInv == [path |-> "none", remote |-> FALSE, fetch |-> "none", pass |-> "none",
          wrote |-> FALSE, probes |-> <<>>]

\* what the calls of the pass that wrote the record did: per item, the locators
\* whose download failed and, when one failed, those whose download succeeded
noCall == [failed |-> {}, ok |-> {}]
callsOf(ts) ==
    [k \in 1..Len(ts) |->
        IF ts[k].pc # "done" \/ ts[k].failed = {} THEN noCall
        ELSE [failed |-> {ts[k].shown[j] : j \in ts[k].failed},
              ok |-> {ts[k].shown[j] : j \in (1..Len(ts[k].shown)) \ ts[k].failed}]]

noHist == [pass |-> "none", touched |-> FALSE, calls |-> <<>>]

\* the value of $cache.setAsync
record(its, d, all) == [items |-> its, date |-> d, imgAllDownloaded |-> all]

result(its, d) == [info |-> its, date |-> d]
\* also the value of ret while the invocation runs
noResult == result(Null, Null)

Init ==
    /\ remote = FetchResults
    /\ cache = <<>>
    /\ prefs \in PrefValues
    /\ fs = [root |-> FALSE, dir |-> FALSE, mtime |-> Null, files |-> {}]
    /\ now = 0
    /\ pc = "idle"
    /\ forceLoad = FALSE
    /\ cached = Null
    /\ items = <<>>
    /\ date = 0
    /\ tasks = <<>>
    /\ abandoned = Null
    /\ ret = noResult
    /\ inv = noInv
    /\ hist = noHist

\* getEntry returned: its locals are gone
returned ==
    /\ cached' = Null
    /\ items' = <<>>
    /\ date' = 0
    /\ tasks' = <<>>

\* getEntry('' , forceLoad) (lines 249-254)
getEntryNoName ==
    /\ pc = "idle"
    /\ \E name \in tiebaNames, fl \in BOOLEAN :
         /\ name = ""
         /\ forceLoad' = fl
    /\ ret' = result(Null, Null)
    /\ inv' = [noInv EXCEPT !.path = "noname"]
    /\ UNCHANGED <<remote, cache, prefs, fs, now, pc, cached, items, date, tasks, abandoned, hist>>

\* getEntry('t', forceLoad) up to its second await (lines 256-283)
getEntry ==
    /\ pc = "idle"
    /\ \E name \in tiebaNames, fl \in BOOLEAN :
         /\ name # ""
         /\ forceLoad' = fl
         /\ LET c == IF name \in DOMAIN cache THEN Some(cache[name]) ELSE Null IN
            IF ~fl /\ isCacheValid(c, now)
               THEN IF ~Val(c).imgAllDownloaded
                       THEN /\ cached' = c
                            /\ items' = Val(c).items
                            /\ date' = Val(c).date
                            /\ tasks' = startTasks(Val(c).items)
                            /\ pc' = "images"
                            /\ inv' = [noInv EXCEPT !.path = "hit", !.pass = "running"]
                            /\ ret' = noResult
                       ELSE /\ pc' = "idle"
                            /\ inv' = [noInv EXCEPT !.path = "hit"]
                            /\ ret' = result(Some(Val(c).items), Some(Val(c).date))
                            /\ UNCHANGED <<cached, items, date, tasks>>
               ELSE /\ cached' = c
                    /\ pc' = "fetch"
                    /\ inv' = [noInv EXCEPT !.path = "fetch", !.remote = TRUE]
                    /\ ret' = noResult
                    /\ UNCHANGED <<items, date, tasks>>
    /\ UNCHANGED <<remote, cache, prefs, fs, now, abandoned, hist>>

\* getTiebaPost settled with items before the deadline (lines 284-294)
fetchSucceeded ==
    /\ pc = "fetch"
    /\ \E its \in remote, mkRoot \in BOOLEAN, del \in DeleteResults, mkDst \in BOOLEAN :
         LET prep == prepareForImageDownload(fs, now, mkRoot, del, mkDst) IN
         /\ fs' = prep.fs
         /\ IF prep.ok
            THEN /\ items' = its
                 /\ date' = now
                 /\ tasks' = startTasks(its)
                 /\ pc' = "images"
                 /\ inv' = [inv EXCEPT !.fetch = "ok", !.pass = "running"]
                 /\ UNCHANGED <<cache, cached, ret, hist>>
            ELSE /\ cache' = [n \in (DOMAIN cache) \cup {"t"} |-> record(its, now, FALSE)]
                 /\ ret' = result(Some(its), Some(now))
                 /\ pc' = "idle"
                 /\ inv' = [inv EXCEPT !.fetch = "ok", !.pass = "prepfail", !.wrote = TRUE]
                 /\ hist' = [pass |-> "prepfail", touched |-> FALSE,
                             calls |-> [k \in 1..Len(its) |-> noCall]]
                 /\ returned
    /\ UNCHANGED <<remote, prefs, now, forceLoad, abandoned>>

\* the fallback without lines 302-304
fallbackEmpty(how) ==
    /\ pc' = "idle"
    /\ inv' = [inv EXCEPT !.fetch = how]
    /\ ret' = result(Null, Null)
    /\ returned
    /\ UNCHANGED <<remote, cache, prefs, fs, now, forceLoad, abandoned, hist>>

\* tryGetTiebaPostWithTimeout without its catch: the error leaves getEntry
fallbackThrows(how) ==
    /\ pc' = "failed"
    /\ inv' = [inv EXCEPT !.fetch = how]
    /\ UNCHANGED <<remote, cache, prefs, fs, now, forceLoad, cached, items, date, tasks,
                   abandoned, ret, hist>>

\* a fallback that returns an empty list when there is no record
fallbackNoItems(how) ==
    /\ pc' = "idle"
    /\ inv' = [inv EXCEPT !.fetch = how]
    /\ ret' = IF ~IsNull(cached) /\ Has(Val(cached), "items") /\ Has(Val(cached), "date")
              THEN result(Some(Val(cached).items), Some(Val(cached).date))
              ELSE result(Some(<<>>), Null)
    /\ returned
    /\ UNCHANGED <<remote, cache, prefs, fs, now, forceLoad, abandoned, hist>>

\* lines 300-307: no items, fall back on the record that was read
fallback(how) ==
    /\ pc' = "idle"
    /\ inv' = [inv EXCEPT !.fetch = how]
    /\ ret' = IF ~IsNull(cached) /\ Has(Val(cached), "items") /\ Has(Val(cached), "date")
              THEN result(Some(Val(cached).items), Some(Val(cached).date))
              ELSE result(Null, Null)
    /\ returned
    /\ UNCHANGED <<remote, cache, prefs, fs, now, forceLoad, abandoned, hist>>

\* a failed fetch that returns nothing, whatever was read
fetchFailedNothing ==
    /\ pc = "fetch"
    /\ fallbackEmpty("fail")

\* getTiebaPost failed, or returned nothing, before the deadline
fetchFailed ==
    /\ pc = "fetch"
    /\ fallback("fail")

\* the deadline of doWithTimeout passed first (lines 227-235)
fetchTimeout ==
    /\ pc = "fetch"
    /\ timedOut(FALSE)
    /\ fallback("timeout")

\* the record written with the time of the write
persistAndReturnNow(its, all, how) ==
    /\ cache' = [n \in (DOMAIN cache) \cup {"t"} |-> record(its, now, all)]
    /\ ret' = result(Some(its), Some(date))
    /\ pc' = "idle"
    /\ inv' = [inv EXCEPT !.pass = how, !.wrote = TRUE]
    /\ hist' = [pass |-> how, touched |-> FALSE, calls |-> callsOf(tasks)]
    /\ returned

\* lines 272-275 and 296-299, then line 307
persistAndReturn(its, all, how) ==
    /\ cache' = [n \in (DOMAIN cache) \cup {"t"} |-> record(its, date, all)]
    /\ ret' = result(Some(its), Some(date))
    /\ pc' = "idle"
    /\ inv' = [inv EXCEPT !.pass = how, !.wrote = TRUE]
    /\ hist' = [pass |-> how, touched |-> FALSE, calls |-> callsOf(tasks)]
    /\ returned

\* a probe of the running pass answers
headResponse ==
    /\ pc = "images"
    /\ \E k \in 1..Len(tasks), resp \in HeadResponses :
         /\ tasks[k].pc = "head"
         /\ LET p == passHead([items |-> items, tasks |-> tasks], k, resp, fs) IN
            /\ items' = p.items
            /\ tasks' = p.tasks
    /\ UNCHANGED <<remote, cache, prefs, fs, now, pc, forceLoad, cached, date, abandoned, ret, inv, hist>>

\* the same, and the answer is recorded
probeResponse ==
    /\ pc = "images"
    /\ \E k \in 1..Len(tasks), resp \in HeadResponses :
         /\ tasks[k].pc = "head"
         /\ LET p == passHead([items |-> items, tasks |-> tasks], k, resp, fs) IN
            /\ items' = p.items
            /\ tasks' = p.tasks
         /\ inv' = [inv EXCEPT !.probes = Append(@,
                        [k |-> k, url |-> items[k].imgUrls[tasks[k].i], resp |-> resp])]
    /\ UNCHANGED <<remote, cache, prefs, fs, now, pc, forceLoad, cached, date, abandoned, ret, hist>>

\* a download of the running pass answers
getResponse ==
    /\ pc = "images"
    /\ \E k \in 1..Len(tasks), resp \in GetResponses, written \in BOOLEAN :
         /\ tasks[k].pc = "get"
         /\ writeResult(fs, resp, written)
         /\ \E j \in tasks[k].pending :
              LET p == passGot([items |-> items, tasks |-> tasks], k, j, resp, written, fs, now) IN
              /\ items' = p.items
              /\ tasks' = p.tasks
              /\ fs' = p.fs
    /\ UNCHANGED <<remote, cache, prefs, now, pc, forceLoad, cached, date, abandoned, ret, inv, hist>>

\* every call of the pass settled before the deadline (lines 200-202)
passSettled ==
    /\ pc = "images"
    /\ allSettled(tasks)
    /\ persistAndReturn(items, everyTrue(tasks), IF everyTrue(tasks) THEN "ok" ELSE "partial")
    /\ UNCHANGED <<remote, prefs, fs, now, forceLoad, abandoned>>

\* tryDownloadAllImageWithTimeout without its catch: the Timeout error leaves
\* getEntry, which returns nothing
passTimeoutThrows ==
    /\ pc = "images"
    /\ timedOut(allSettled(tasks))
    /\ pc' = "failed"
    /\ inv' = [inv EXCEPT !.pass = "timeout"]
    /\ abandoned' = Some([items |-> items, tasks |-> tasks])
    /\ UNCHANGED <<remote, cache, prefs, fs, now, forceLoad, cached, items, date, tasks, ret, hist>>

\* a timeout of the pass that returns the items without writing the record
passTimeoutNoWrite ==
    /\ pc = "images"
    /\ timedOut(allSettled(tasks))
    /\ ret' = result(Some(items), Some(date))
    /\ pc' = "idle"
    /\ inv' = [inv EXCEPT !.pass = "timeout"]
    /\ returned
    /\ abandoned' = Some([items |-> items, tasks |-> tasks])
    /\ UNCHANGED <<remote, cache, prefs, fs, now, forceLoad, hist>>

\* the deadline of doWithTimeout passed first (lines 203-216); the pass runs on
passTimeout ==
    /\ pc = "images"
    /\ timedOut(allSettled(tasks))
    /\ persistAndReturn(items, FALSE, "timeout")
    /\ abandoned' = Some([items |-> items, tasks |-> tasks])
    /\ UNCHANGED <<remote, prefs, fs, now, forceLoad>>

\* the same, and what the pass still waits for never answers
passTimeoutHung ==
    /\ pc = "images"
    /\ timedOut(allSettled(tasks))
    /\ persistAndReturn(items, FALSE, "timeout")
    /\ UNCHANGED <<remote, prefs, fs, now, forceLoad, abandoned>>

\* an abandoned pass whose calls all settled has nothing left to do
stillRunning(p) == IF allSettled(p.tasks) THEN Null ELSE Some(p)

\* a probe of the abandoned pass answers
abandonedHeadResponse ==
    /\ ~IsNull(abandoned)
    /\ \E k \in 1..Len(Val(abandoned).tasks), resp \in HeadResponses :
         /\ Val(abandoned).tasks[k].pc = "head"
         /\ abandoned' = stillRunning(passHead(Val(abandoned), k, resp, fs))
    /\ UNCHANGED <<remote, cache, prefs, fs, now, pc, forceLoad, cached, items, date, tasks, ret, inv, hist>>

\* a download of the abandoned pass answers
abandonedGetResponse ==
    /\ ~IsNull(abandoned)
    /\ \E k \in 1..Len(Val(abandoned).tasks), resp \in GetResponses, written \in BOOLEAN :
         /\ Val(abandoned).tasks[k].pc = "get"
         /\ writeResult(fs, resp, written)
         /\ \E j \in Val(abandoned).tasks[k].pending :
              LET p == passGot(Val(abandoned), k, j, resp, written, fs, now) IN
              /\ abandoned' = stillRunning([items |-> p.items, tasks |-> p.tasks])
              /\ fs' = p.fs
              /\ hist' = [hist EXCEPT !.touched = @ \/ p.fs # fs]
    /\ UNCHANGED <<remote, cache, prefs, now, pc, forceLoad, cached, items, date, tasks, ret, inv>>

\* the widget process ends between two invocations: what still ran is gone
restart ==
    /\ pc = "idle"
    /\ ~IsNull(abandoned)
    /\ abandoned' = Null
    /\ UNCHANGED <<remote, cache, prefs, fs, now, pc, forceLoad, cached, items, date, tasks, ret, inv, hist>>

\* time passes between two invocations
tick ==
    /\ pc = "idle"
    /\ now + TickMs <= MaxTicks * TickMs
    /\ now' = now + TickMs
    /\ UNCHANGED <<remote, cache, prefs, fs, pc, forceLoad, cached, items, date, tasks, abandoned, ret, inv, hist>>

Next ==
    \/ getEntryNoName
    \/ getEntry
    \/ fetchSucceeded
    \/ fetchFailed
    \/ fetchTimeout
    \/ headResponse
    \/ getResponse
    \/ passSettled
    \/ passTimeout
    \/ passTimeoutHung
    \/ abandonedHeadResponse
    \/ abandonedGetResponse
    \/ restart
    \/ tick

Spec == Init /\ [][Next]_vars

\* the timers of doWithTimeout fire, and a settled pass is continued
LiveSpec ==
    /\ Init /\ [][Next]_vars
    /\ WF_vars(fetchTimeout)
    /\ WF_vars(passTimeout)
    /\ WF_vars(passSettled)

\* more item lists, and no abandoned pass ever answers
InitItems ==
    /\ remote = MoreFetchResults
    /\ cache = <<>>
    /\ prefs \in PrefValues
    /\ fs = [root |-> FALSE, dir |-> FALSE, mtime |-> Null, files |-> {}]
    /\ now = 0
    /\ pc = "idle"
    /\ forceLoad = FALSE
    /\ cached = Null
    /\ items = <<>>
    /\ date = 0
    /\ tasks = <<>>
    /\ abandoned = Null
    /\ ret = noResult
    /\ inv = noInv
    /\ hist = noHist

NextItems ==
    \/ getEntryNoName
    \/ getEntry
    \/ fetchSucceeded
    \/ fetchFailed
    \/ fetchTimeout
    \/ headResponse
    \/ getResponse
    \/ passSettled
    \/ passTimeoutHung
    \/ tick

SpecItems == InitItems /\ [][NextItems]_vars

\* one item with several locators, every probe recorded, and no download ever
\* answers
InitSelect ==
    /\ remote = SelectFetchResults
    /\ cache = <<>>
    /\ prefs \in PrefValues
    /\ fs = [root |-> FALSE, dir |-> FALSE, mtime |-> Null, files |-> {}]
    /\ now = 0
    /\ pc = "idle"
    /\ forceLoad = FALSE
    /\ cached = Null
    /\ items = <<>>
    /\ date = 0
    /\ tasks = <<>>
    /\ abandoned = Null
    /\ ret = noResult
    /\ inv = noInv
    /\ hist = noHist

NextSelect ==
    \/ getEntryNoName
    \/ getEntry
    \/ fetchSucceeded
    \/ fetchFailed
    \/ fetchTimeout
    \/ probeResponse
    \/ passSettled
    \/ passTimeoutHung
    \/ tick

SpecSelect == InitSelect /\ [][NextSelect]_vars

TypeOK == pc \in {"idle", "fetch", "images"}

\* ------------------------------------------------------------------ claims
hasRecord == "t" \in DOMAIN cache
theRecord == cache["t"]

\* the refresh interval in milliseconds: the preference, else the default
refreshInterval == (IF IsNull(prefs) THEN DEFAULT_REFRESH_CIRCLE ELSE Val(prefs)) * 60000

\* an item without its download state
coreOf(item) == [g \in (DOMAIN item) \cap {"abstract", "imgUrls"} |-> item[g]]
coresOf(its) == [k \in 1..Len(its) |-> coreOf(its[k])]

resolved(item) == imgDownloadedOf(item) \/ Len(item.imgUrls) = 0

C2_NoRequestOnce ==
    (pc = "images" /\ inv.path = "hit") =>
        \A k \in 1..Len(tasks) :
            imgDownloadedOf(Val(cached).items[k]) =>
                /\ tasks[k].pc = "done"
                /\ tasks[k].heads = 0
                /\ tasks[k].shown = <<>>
                /\ imgDownloadedOf(items[k])

C2_FlagStays ==
    (hasRecord /\ inv'.fetch # "ok") =>
        /\ "t" \in DOMAIN cache'
        /\ Len(cache'["t"].items) = Len(theRecord.items)
        /\ \A k \in 1..Len(theRecord.items) :
              imgDownloadedOf(theRecord.items[k]) => imgDownloadedOf(cache'["t"].items[k])

C2_DownloadedIsFinal == [][C2_NoRequestOnce' /\ C2_FlagStays]_vars

\* a pass over a reused record that holds a downloaded item next to one whose
\* download is in flight
C2_Witness ==
    /\ pc = "images" /\ inv.path = "hit"
    /\ \E k, l \in 1..Len(tasks) :
          imgDownloadedOf(Val(cached).items[k]) /\ tasks[l].pc = "get"

\* C3: the date of the record changes only in the step of an invocation whose
\* fetch succeeded, and a write of the cache-hit path stores the date it read.
C3_DateStep ==
    /\ (hasRecord /\ cache' # cache /\ inv'.fetch # "ok")
          => ("t" \in DOMAIN cache' /\ cache'["t"].date = theRecord.date)
    /\ (~hasRecord /\ cache' # cache) => inv'.fetch = "ok"
    /\ (inv'.path = "hit" /\ inv'.wrote /\ ~inv.wrote)
          => (hasRecord /\ cache'["t"].date = theRecord.date)

C3_DateOnlyByFetch == [][C3_DateStep]_vars

\* the cache-hit path wrote, after the clock moved on from the date of the record
C3_Witness ==
    /\ pc = "idle" /\ inv.path = "hit" /\ inv.wrote
    /\ hasRecord /\ theRecord.date # now

\* C4: an invocation with a record: when forceLoad is false and now - date is
\* less than the refresh interval, it never invokes the remote source client
\* and returns the items of the record; otherwise it invokes the client.
C4_CallStep ==
    (getEntry /\ hasRecord) =>
        IF ~forceLoad' /\ now - theRecord.date < refreshInterval
        THEN /\ ~inv'.remote /\ pc' # "fetch" /\ inv'.path = "hit"
             /\ pc' = "idle" => ret' = result(Some(theRecord.items), Some(theRecord.date))
             /\ pc' = "images" => items' = theRecord.items
        ELSE inv'.remote /\ pc' = "fetch"

C4_HitStep ==
    /\ inv'.path = "hit" => (~inv'.remote /\ pc' # "fetch")
    /\ (pc = "images" /\ pc' = "idle" /\ inv.path = "hit")
          => /\ ~IsNull(ret'.info)
             /\ coresOf(Val(ret'.info)) = coresOf(Val(cached).items)
             /\ ret'.date = Some(Val(cached).date)

C4_FreshSkipsRemote == [][C4_CallStep /\ C4_HitStep]_vars

\* the cache-hit path was taken for a record that only the preference keeps fresh
C4_Witness ==
    /\ pc = "idle" /\ inv.path = "hit" /\ ~IsNull(ret.info)
    /\ hasRecord /\ ~IsNull(prefs)
    /\ now - theRecord.date >= DEFAULT_REFRESH_CIRCLE * 60000

\* C5 as stated: a record with an empty items sequence is never used as fresh.
C5_EmptyNeverFresh ==
    (pc = "idle" /\ inv.path = "hit") => Val(ret.info) # <<>>

\* C5 amended: a record with an empty items sequence is treated as any other
\* record: fresh and not forced, the invocation returns the empty items and
\* does not invoke the remote source client; stale or forced, it invokes it.
C5_EmptyStep ==
    (getEntry /\ hasRecord /\ theRecord.items = <<>>) =>
        IF ~forceLoad' /\ now - theRecord.date < refreshInterval
        THEN /\ ~inv'.remote /\ pc' # "fetch"
             /\ pc' = "idle" => ret' = result(Some(<<>>), Some(theRecord.date))
        ELSE inv'.remote /\ pc' = "fetch"

C5_EmptyIsReused == [][C5_EmptyStep]_vars

\* the cache-hit path returned the empty items of the record
C5_Witness ==
    /\ pc = "idle" /\ inv.path = "hit" /\ ret.info = Some(<<>>)

\* C6: when the fetch fails or times out and a record exists, the invocation
\* returns the items and the date of the record and writes nothing.
C6_FallbackStep ==
    (pc = "fetch" /\ pc' = "idle" /\ inv'.fetch \in {"fail", "timeout"} /\ hasRecord) =>
        /\ ret' = result(Some(theRecord.items), Some(theRecord.date))
        /\ cache' = cache
        /\ ~inv'.wrote

C6_FallbackKeepsRecord == [][C6_FallbackStep]_vars

\* the fetch timed out and the items of the record were returned
C6_Witness ==
    /\ pc = "idle" /\ inv.fetch = "timeout" /\ hasRecord
    /\ ~IsNull(ret.info) /\ Val(ret.info) # <<>> /\ Val(ret.date) # now

\* C7: after a fetch that succeeds with items I the invocation returns I and
\* writes a record with I and the time of the fetch, whatever the pass does.
C7_FetchStep ==
    /\ (pc = "fetch" /\ inv'.fetch = "ok" /\ pc' = "images")
          => (items' \in remote /\ date' = now)
    /\ (pc = "fetch" /\ inv'.fetch = "ok" /\ pc' = "idle")
          => /\ ~IsNull(ret'.info) /\ Val(ret'.info) \in remote
             /\ "t" \in DOMAIN cache'
             /\ cache'["t"].items = Val(ret'.info)
             /\ cache'["t"].date = now /\ ret'.date = Some(now)
    /\ (pc = "images" /\ pc' = "images")
          => (coresOf(items') = coresOf(items) /\ date' = date)
    /\ (pc = "images" /\ pc' = "idle" /\ inv.fetch = "ok")
          => /\ ret' = result(Some(items), Some(date))
             /\ "t" \in DOMAIN cache'
             /\ cache'["t"].items = items
             /\ cache'["t"].date = date /\ date = now

C7_FetchedIsKept == [][C7_FetchStep]_vars

\* the pass after a fetch timed out and the fetched items are in the record
C7_Witness ==
    /\ pc = "idle" /\ inv.fetch = "ok" /\ inv.pass = "timeout"
    /\ hasRecord /\ theRecord.items # <<>> /\ ret.info = Some(theRecord.items)

\* C8: every invocation returns, also when the remote source client, a probe or
\* a download never answers; a fetch cut by its deadline ends as a failed
\* fetch, a pass cut by its deadline writes imgAllDownloaded = false, and what
\* the abandoned pass does later reaches neither the record nor the result.
C8_TimeoutStep ==
    /\ (pc = "fetch" /\ inv'.fetch = "timeout")
          => /\ pc' = "idle" /\ cache' = cache
             /\ ret' = IF hasRecord THEN result(Some(theRecord.items), Some(theRecord.date))
                       ELSE noResult
    /\ (pc = "images" /\ inv'.pass = "timeout")
          => /\ pc' = "idle"
             /\ cache'["t"] = record(items, date, FALSE)
             /\ ret' = result(Some(items), Some(date))
    /\ (pc = "idle" /\ inv' = inv /\ abandoned' # abandoned)
          => (cache' = cache /\ ret' = ret)

C8_EveryInvocationReturns ==
    /\ (pc # "idle") ~> (pc = "idle")
    /\ [][C8_TimeoutStep]_vars

\* the pass was cut by its deadline, the invocation returned and the pass
\* still has a request in flight
C8_Witness ==
    /\ pc = "idle" /\ inv.pass = "timeout" /\ ~IsNull(abandoned)
    /\ hasRecord /\ ~theRecord.imgAllDownloaded

\* C9: when in a call of downloadImage one download fails and the others
\* succeed, the call returns false with imgDownloaded = false, imgPaths holds
\* the path of every locator that succeeded and no entry for the one that
\* failed, and the next call on the item downloads the failed locator only.
C9_CallWithOneFailure(k) ==
    (tasks[k].pc = "done" /\ Cardinality(tasks[k].failed) = 1 /\ Len(tasks[k].shown) > 1) =>
        /\ ~tasks[k].ret
        /\ Has(items[k], "imgDownloaded") /\ ~items[k].imgDownloaded
        /\ \A j \in 1..Len(tasks[k].shown) :
              LET path == pathOf(dstOf("t"), tasks[k].shown[j]) IN
              IF j \in tasks[k].failed
              THEN InSeq(path, items[k].imgPaths)
                      => \E i \in (1..Len(tasks[k].shown)) \ tasks[k].failed :
                            pathOf(dstOf("t"), tasks[k].shown[i]) = path
              ELSE InSeq(path, items[k].imgPaths)

C9_NextCall(k) ==
    (inv.path = "hit" /\ hist.pass = "partial"
        /\ Cardinality(hist.calls[k].failed) = 1 /\ hist.calls[k].ok # {}) =>
        \A j \in 1..Len(tasks[k].shown) : tasks[k].shown[j] \in hist.calls[k].failed

C9_RetryOnlyFailed ==
    pc = "images" => \A k \in 1..Len(tasks) : C9_CallWithOneFailure(k) /\ C9_NextCall(k)

imgPathsOf(item) == IF Has(item, "imgPaths") THEN item.imgPaths ELSE <<>>

isPrefix(s1, s2) == Len(s1) <= Len(s2) /\ SubSeq(s2, 1, Len(s1)) = s1

\* the call of item it0 leaves selectImageBySize with task t1 and item it1:
\* it downloads the selected locators whose path is neither recorded nor on
\* disk, and records once each path that is on disk and was not recorded
C10_Filtered(it0, it1, t1, f) ==
    LET recorded(u) == InSeq(pathOf(dstOf("t"), u), imgPathsOf(it0))
        onDisk(u) == pathOf(dstOf("t"), u) \in f.files
        toGet(u) == ~recorded(u) /\ ~onDisk(u)
        found == {pathOf(dstOf("t"), t1.selected[j]) : j \in
                     {i \in 1..Len(t1.selected) :
                         onDisk(t1.selected[i]) /\ ~recorded(t1.selected[i])}}
    IN /\ t1.shown = SelectSeq(t1.selected, toGet)
       /\ isPrefix(imgPathsOf(it0), imgPathsOf(it1))
       /\ Len(imgPathsOf(it1)) = Len(imgPathsOf(it0)) + Cardinality(found)
       /\ \A path \in found : InSeq(path, imgPathsOf(it1))

C10_FilterStep ==
    /\ (pc = "images" /\ pc' = "images") =>
          \A k \in 1..Len(tasks) :
              (tasks[k].pc = "head" /\ tasks'[k].pc # "head")
                  => C10_Filtered(items[k], items'[k], tasks'[k], fs)
    /\ (~IsNull(abandoned) /\ ~IsNull(abandoned') /\ pc' = pc) =>
          \A k \in 1..Len(Val(abandoned).tasks) :
              (Val(abandoned).tasks[k].pc = "head" /\ Val(abandoned').tasks[k].pc # "head")
                  => C10_Filtered(Val(abandoned).items[k], Val(abandoned').items[k],
                                  Val(abandoned').tasks[k], fs)

\* the second of two calls in a row, every call of the pass before having
\* settled and nothing else having touched the files, ends with the imgPaths
\* the first call left
C10_SecondCallSame ==
    (pc = "images" /\ inv.path = "hit" /\ hist.pass = "partial" /\ ~hist.touched) =>
        \A k \in 1..Len(tasks) :
            tasks[k].pc = "done" => imgPathsOf(items[k]) = imgPathsOf(Val(cached).items[k])

\* C10 as stated: no download of a locator whose path is recorded or on disk, a
\* file on disk that is not recorded is recorded instead, and a second call in a
\* row leaves imgPaths as the first call left it.
C10_NoRepeatedDownloadSame == [][C10_FilterStep /\ C10_SecondCallSame']_vars

\* a later call keeps what imgPaths held, and changes nothing and requests
\* nothing when the call before returned true
C10_SecondCallKeeps ==
    (pc = "images" /\ inv.path = "hit") =>
        \A k \in 1..Len(tasks) :
            /\ isPrefix(imgPathsOf(Val(cached).items[k]), imgPathsOf(items[k]))
            /\ resolved(Val(cached).items[k])
                  => /\ items[k] = Val(cached).items[k]
                     /\ tasks[k].heads = 0 /\ tasks[k].shown = <<>>

\* C10 amended: no download of a locator whose path is recorded or on disk when
\* the filter runs, a file on disk that is not recorded is recorded instead, and
\* a second call keeps every entry of imgPaths: it leaves imgPaths as it was
\* when the first call returned true and can only append to it otherwise.
C10_NoRepeatedDownload == [][C10_FilterStep /\ C10_SecondCallKeeps']_vars

\* a file written by the abandoned pass after the record was written is
\* recorded by the next call, which downloads nothing
C10_Witness ==
    /\ pc = "images" /\ inv.path = "hit" /\ hist.pass = "timeout" /\ hist.touched
    /\ \E k \in 1..Len(tasks) :
          /\ tasks[k].pc = "done" /\ tasks[k].selected # <<>> /\ tasks[k].shown = <<>>
          /\ imgPathsOf(Val(cached).items[k]) = <<>>
          /\ imgPathsOf(items[k]) # <<>>

\* ---- selectImageBySize
\* the answered probes of call k, in the order of their answers
probesOf(k) == SelectSeq(inv.probes, LAMBDA p : p.k = k)

\* the probe succeeded with a known length within the budget
C11_Qualifies(resp) == resp.error = FALSE /\ resp.len > 0 /\ resp.len <= MAX_IMAGE_SIZE

\* the locators of the qualifying probes among the first n, in order
RECURSIVE C11_Qualified(_, _)
C11_Qualified(ps, n) ==
    IF n = 0 THEN <<>>
    ELSE IF C11_Qualifies(ps[n].resp)
         THEN Append(C11_Qualified(ps, n - 1), ps[n].url)
         ELSE C11_Qualified(ps, n - 1)

C11_Selection(k) ==
    LET ps == probesOf(k)
        urls == items[k].imgUrls
        max == maxNumImg(items[k])
    IN \* the locators are probed one after the other, from the first
       /\ Len(ps) <= Len(urls)
       /\ \A n \in 1..Len(ps) : ps[n].url = urls[n]
       \* what is selected is what qualified, in the order of the list
       /\ tasks[k].selected = C11_Qualified(ps, Len(ps))
       /\ Len(tasks[k].selected) <= max
       \* a probe is sent only while fewer than max locators are accepted
       /\ \A n \in 1..Len(ps) : Len(C11_Qualified(ps, n - 1)) < max
       /\ tasks[k].pc = "head"
             => (Len(ps) < Len(urls) /\ Len(tasks[k].selected) < max /\ tasks[k].i = Len(ps) + 1)
       \* the selection ends with max locators, or with the list
       /\ (tasks[k].pc # "head" /\ tasks[k].heads > 0)
             => (Len(tasks[k].selected) = max \/ Len(ps) = Len(urls))

\* C11: selectImageBySize returns, in the order of the list, the first maxNumImg
\* locators whose probe succeeded with a known length of at most MAX_IMAGE_SIZE
\* (fewer when fewer qualify); a probe that fails or reports no length rejects
\* its locator and the selection goes on; no locator after the one that was
\* accepted as the maxNumImg-th is probed.
C11_SelectsFirstWithinBudget ==
    pc = "images" => \A k \in 1..Len(tasks) : C11_Selection(k)

\* the first locator was above the budget, and the selection ended with the
\* locators after it, before the end of the list
C11_Witness ==
    /\ pc = "images"
    /\ \E k \in 1..Len(tasks) :
          LET ps == probesOf(k) IN
          /\ tasks[k].pc = "get"
          /\ Len(ps) < Len(items[k].imgUrls)
          /\ Len(tasks[k].selected) = maxNumImg(items[k])
          /\ ~ps[1].resp.error /\ ps[1].resp.len > MAX_IMAGE_SIZE
          /\ tasks[k].selected[1] = items[k].imgUrls[2]

\* ---- count policy
C12_Max(item) ==
    IF ~Has(item, "abstract") \/ item.abstract = <<>> THEN 3
    ELSE IF Len(item.abstract) < MAX_ABSTRACT_LEN_ALLOWING_TWO_IMAGES THEN 2
    ELSE 1

C12_Count(k) ==
    LET ps == probesOf(k)
        urls == items[k].imgUrls
    IN /\ Len(tasks[k].selected) <= C12_Max(items[k])
       /\ (/\ tasks[k].pc # "head" /\ tasks[k].heads > 0
           /\ Len(urls) >= C12_Max(items[k])
           /\ \A n \in 1..Len(ps) : C11_Qualifies(ps[n].resp))
             => tasks[k].selected = SubSeq(urls, 1, C12_Max(items[k]))

C13_NoRecordStep ==
    (pc = "fetch" /\ inv'.fetch \in {"fail", "timeout"} /\ ~hasRecord) =>
        /\ pc' = "idle"
        /\ ret' = [info |-> Null, date |-> Null]
        /\ inv'.pass = "none" /\ tasks' = <<>> /\ fs' = fs
        /\ ~inv'.wrote /\ cache' = cache /\ "t" \notin DOMAIN cache'

\* C13: without a record for the name, when the fetch fails or is cut by its
\* deadline, getEntry returns {info: null, date: null}, starts no image pass
\* and writes nothing to the cache.
C13_NothingToReturn == [][C13_NoRecordStep]_vars

\* the invocation returned nothing after a failed fetch, later than the first
\* moment, and there is still no record
C13_Witness ==
    /\ pc = "idle" /\ inv.path = "fetch" /\ inv.fetch = "fail"
    /\ ~hasRecord /\ ret = [info |-> Null, date |-> Null] /\ now > 0

\* ---- when info is null
C14_NotNullWhenAvailable ==
    (pc = "idle" /\ inv.path \in {"hit", "fetch"} /\ (hasRecord \/ inv.fetch = "ok"))
        => ~IsNull(ret.info)

\* C14 as stated: an invocation returns info = null only when there was no
\* record for the name and the fetch failed or was cut by its deadline; with a
\* record, or with a fetch that succeeds, info is not null.
C14_NullOnlyWithoutAnything ==
    /\ (pc = "idle" /\ inv.path # "none" /\ IsNull(ret.info))
          => (~hasRecord /\ inv.fetch \in {"fail", "timeout"})
    /\ C14_NotNullWhenAvailable

\* C14 amended: an invocation returns info = null only when the name is empty,
\* or when there was no record for the name and the fetch failed or was cut by
\* its deadline; for a name that is not empty, with a record or with a fetch
\* that succeeds, info is not null.
C14_NullOnlyWithoutNameOrAnything ==
    /\ (pc = "idle" /\ inv.path # "none" /\ IsNull(ret.info))
          => \/ inv.path = "noname"
             \/ (~hasRecord /\ inv.fetch \in {"fail", "timeout"})
    /\ C14_NotNullWhenAvailable

\* an invocation with the empty name returned nothing while the store holds a
\* record with items
C14_Witness ==
    /\ pc = "idle" /\ inv.path = "noname" /\ IsNull(ret.info)
    /\ hasRecord /\ theRecord.items # <<>>

\* ---- failures of the collaborators
\* a value {info, date}: both null, or items with their date
C15_IsResult(r) ==
    /\ DOMAIN r = {"info", "date"}
    /\ \/ IsNull(r.info) /\ IsNull(r.date)
       \/ ~IsNull(r.info) /\ ~IsNull(r.date)

C15_Ends == pc' = "idle" /\ inv' # inv

C15_Step ==
    /\ pc' \in {"idle", "fetch", "images"}
    /\ C15_Ends => C15_IsResult(ret')
    \* the fetch failed or was cut: what was read, or nothing
    /\ (C15_Ends /\ inv'.fetch \in {"fail", "timeout"})
          => (IsNull(ret'.info) <=> ~hasRecord)
    \* the directory could not be prepared, a download or a write failed, the
    \* pass was cut: the items, and imgAllDownloaded = false
    /\ (C15_Ends /\ inv'.pass \in {"prepfail", "partial", "timeout"})
          => (~IsNull(ret'.info) /\ ~cache'["t"].imgAllDownloaded)

\* C15: no failure of a collaborator leaves getEntry as an exception: when the
\* fetch fails or is cut by its deadline, a probe fails, a download fails or is
\* refused, a write fails, a directory cannot be created or deleted, or the
\* pass is cut by its deadline, the invocation ends by returning {info, date}.
C15_NoFailureEscapes ==
    /\ [][C15_Step]_vars
    /\ (pc # "idle") ~> (pc = "idle" /\ C15_IsResult(ret))

\* a download of the reused record failed and the invocation returned its items
C15_Witness ==
    /\ pc = "idle" /\ inv.path = "hit" /\ inv.pass = "partial"
    /\ \E k \in 1..Len(hist.calls) : hist.calls[k].failed # {}
    /\ ~IsNull(ret.info) /\ Val(ret.info) = theRecord.items

\* ---- cleanup and downloads in flight
\* the step deletes the directory of the source (and may create it again)
C16_Deletes ==
    fs.dir /\ (~fs'.dir \/ ~(fs.files \subseteq fs'.files)
                  \/ (pc = "fetch" /\ fs'.mtime # fs.mtime))

\* a download into the directory is in flight: the pass that was cut by its
\* deadline waits for the answer of a GET
C16_InFlight ==
    ~IsNull(abandoned) /\ \E k \in 1..Len(Val(abandoned).tasks) : Val(abandoned).tasks[k].pc = "get"

C16_Step ==
    /\ inv'.path = "hit" => ~C16_Deletes
    /\ C16_Deletes => ~C16_InFlight

\* C16: the directory of the source is never deleted while a download into it
\* is in flight: no step of the cache-hit path deletes it, and no invocation
\* deletes it while a pass that was cut by its deadline still downloads.
C16_NoCleanupUnderDownload == [][C16_Step]_vars

\* ---- items without images
\* the call for an item without locators: true at once, no request
C17_NoLocators(k) ==
    Len(items[k].imgUrls) = 0 =>
        /\ tasks[k].pc = "done" /\ tasks[k].ret
        /\ tasks[k].heads = 0 /\ tasks[k].shown = <<>>

\* the call whose selection came back empty: imgDownloaded = true, true, no GET
C17_NoSelection(k) ==
    (tasks[k].pc # "head" /\ tasks[k].heads > 0 /\ tasks[k].selected = <<>>) =>
        /\ tasks[k].pc = "done" /\ tasks[k].ret
        /\ tasks[k].shown = <<>> /\ tasks[k].pending = {}
        /\ imgDownloadedOf(items[k])

C18_Disturbed ==
    \/ pc = "idle" /\ pc' = "fetch"
    \/ pc = "idle" /\ inv' # inv /\ forceLoad'
    \/ pc = "images" /\ inv'.pass = "timeout"
    \/ /\ pc = "images" /\ pc' = "images" /\ fs.dir
       /\ \E k \in 1..Len(tasks) : tasks'[k].failed # tasks[k].failed

\* C18: when getEntry is invoked again and again and, from some point on, the
\* record stays fresh, forceLoad is false, no pass is cut by its deadline and
\* every download succeeds, a record with imgAllDownloaded = true is written.
C18_ResumptionConverges ==
    ([]<><<getEntry>>_vars /\ <>[][~C18_Disturbed]_vars)
        => <>(hasRecord /\ theRecord.imgAllDownloaded)

\* ---- how many paths, and which
\* the items of the running pass and those of the record
allItems ==
    {items[k] : k \in 1..Len(items)}
        \cup (IF hasRecord THEN {theRecord.items[k] : k \in 1..Len(theRecord.items)} ELSE {})

\* C19: whatever the calls of downloadImage on an item did, in one invocation or
\* in several, imgPaths never holds more entries than the count policy allows
\* for the item (3, 2 or 1 according to its abstract).
C19_PathsWithinCount ==
    \A item \in allItems : Len(imgPathsOf(item)) <= C12_Max(item)

C20_Paths(item) ==
    LET paths == imgPathsOf(item) IN
    /\ \A m, n \in 1..Len(paths) : paths[m] = paths[n] => m = n
    /\ \A n \in 1..Len(paths) :
          \E i \in 1..Len(item.imgUrls) :
              paths[n] = dstOf("t") \o <<item.imgUrls[i][Len(item.imgUrls[i])]>>

\* C20: imgPaths never holds the same path twice, also when two locators of the
\* item are equal or end in the same segment and in whatever order the
\* downloads answer, and every entry is dst followed by the last segment of
\* one of the locators of the item.
C20_PathsDistinct ==
    \A item \in allItems : C20_Paths(item)

====
